---- MODULE Spec2Model ----
(***************************************************************************)
(* State-machine model of the Digilent AnalogDiscovery2 libsigrok driver:  *)
(* api.c (dev_acquisition_start/stop, config_set) and the protocol unit    *)
(* (scan, open, close, start, decode_trigger, receive_data).               *)
(***************************************************************************)
EXTENDS Integers, Sequences, FiniteSets, TLC

(* ------------------------------ bounds -------------------------------- *)
\* Native handles the SDK can hand out are 1..MaxHandles.
MaxHandles == 2
\* Packets recorded in the consumer's feed before the model stops emitting.
MaxFeed == 3

\* Matches in one stage of the single-stage triggers given to the encoder.
MaxMatches == 2
\* Stages in the staged triggers given to the encoder.
MaxStages == 3

(* ------------------------- program constants -------------------------- *)
NUM_LOGIC_CHAN == 16
SYSCLOCK == 100000000
SAMPLE_FORMAT == 16
TRIGGER_POSITION == 100000
UNITSIZE == 2
TIMER_FD == -1
hdwfNone == 0
enum_idx == 0
samplerates == <<1, 10, 50, 100, 200>>
NUM_SAMPLERATES == Len(samplerates)
DEFAULT_SAMPLERATE == 100

SR_OK == "SR_OK"
SR_ERR_ARG == "SR_ERR_ARG"
SR_ERR_BUG == "SR_ERR_BUG"
SR_ERR_NA == "SR_ERR_NA"
SR_ERR_DEV_CLOSED == "SR_ERR_DEV_CLOSED"
\* The operation did not return: the process was terminated inside it.
NO_RETURN == "NO_RETURN"

SR_DF_HEADER == "SR_DF_HEADER"
SR_DF_END == "SR_DF_END"
SR_DF_LOGIC == "SR_DF_LOGIC"

VARIABLES
    is_opened,       \* devc->is_opened
    hdwf,            \* devc->hdwf
    cur_samplerate,  \* devc->cur_samplerate
    live,            \* handles currently open inside the vendor SDK
    sources,         \* keys of the event sources registered with the session
    feed,            \* packet types delivered to the session's consumer
    op,              \* the driver entry point that ran last
    ret,             \* its return value
    calls,           \* the native SDK calls it issued, in order
    emitted,         \* the logic packets it sent
    warns,           \* number of sr_warn() reports it made
    errs,            \* number of sr_err() reports it made
    input,           \* what it was given: the session's trigger, key and value
    aborted          \* the process was terminated (failed assert, trap)

vars == <<is_opened, hdwf, cur_samplerate, live, sources, feed,
          op, ret, calls, emitted, warns, errs, input, aborted>>

Handles == 1..MaxHandles

Call(fn, args, ok) == [fn |-> fn, args |-> args, ok |-> ok]

\* A trigger is a list of stages, each a list of matches; NoTrigger is the
\* NULL trigger of a session that has none.
NoTrigger == [null |-> TRUE, stages |-> <<>>]
Match(name, match) == [name |-> name, match |-> match]

\* What an entry point was given: start reads the session's trigger,
\* config_set gets a key and a value; the others get neither.
Input(trigger, key, data) == [trigger |-> trigger, key |-> key, data |-> data]
NoInput == Input(NoTrigger, "", 0)

\* What the entry point `o` did: return value, native calls, packets, logs.
Report(o, r, c, e, w, er) ==
    /\ op' = o
    /\ ret' = r
    /\ calls' = c
    /\ emitted' = e
    /\ warns' = w
    /\ errs' = er

(* ----------------------------- scan / Init ---------------------------- *)
\* scan leaving cur_samplerate as g_malloc0 made it.
scan_rate_unset ==
    /\ is_opened = FALSE
    /\ hdwf = hdwfNone
    /\ cur_samplerate = 0

digilent_analogdiscovery2_scan ==
    /\ is_opened = FALSE
    /\ hdwf = hdwfNone
    /\ cur_samplerate = DEFAULT_SAMPLERATE

Init ==
    /\ digilent_analogdiscovery2_scan
    /\ live = {}
    /\ sources = {}
    /\ feed = <<>>
    /\ op = "scan"
    /\ ret = SR_OK
    /\ calls = <<>>
    /\ emitted = <<>>
    /\ warns = 0
    /\ errs = 0
    /\ input = NoInput
    /\ aborted = FALSE

(* ----------------------------- open / close --------------------------- *)
\* open without the already-open test.
open_reopens(nativeOk, h, clearOnFail) ==
    IF nativeOk
    THEN /\ h \notin live
         /\ hdwf' = h
         /\ live' = live \cup {h}
         /\ is_opened' = TRUE
         /\ Report("open", SR_OK,
                   <<Call("FDwfDeviceOpen", <<enum_idx>>, TRUE)>>, <<>>, 0, 0)
    ELSE /\ hdwf' = (IF clearOnFail THEN hdwfNone ELSE hdwf)
         /\ live' = live
         /\ is_opened' = FALSE
         /\ Report("open", SR_ERR_BUG,
                   <<Call("FDwfDeviceOpen", <<enum_idx>>, FALSE)>>, <<>>, 0, 1)

\* nativeOk: FDwfDeviceOpen succeeds and stores the fresh handle h;
\* on failure the SDK either leaves *phdwf alone or stores hdwfNone.
digilent_analogdiscovery2_open(nativeOk, h, clearOnFail) ==
    IF is_opened
    THEN /\ UNCHANGED <<is_opened, hdwf, live>>
         /\ Report("open", SR_ERR_BUG, <<>>, <<>>, 0, 1)
    ELSE IF nativeOk
    THEN /\ h \notin live
         /\ hdwf' = h
         /\ live' = live \cup {h}
         /\ is_opened' = TRUE
         /\ Report("open", SR_OK,
                   <<Call("FDwfDeviceOpen", <<enum_idx>>, TRUE)>>, <<>>, 0, 0)
    ELSE /\ hdwf' = (IF clearOnFail THEN hdwfNone ELSE hdwf)
         /\ live' = live
         /\ is_opened' = FALSE
         /\ Report("open", SR_ERR_BUG,
                   <<Call("FDwfDeviceOpen", <<enum_idx>>, FALSE)>>, <<>>, 0, 1)

\* close without the is_opened test.
close_unguarded ==
    /\ live' = live \ {hdwf}
    /\ is_opened' = FALSE
    /\ hdwf' = hdwf
    /\ Report("close", SR_OK,
              <<Call("FDwfDeviceClose", <<hdwf>>, hdwf \in live)>>,
              <<>>, 0, 0)

\* close that forgets to reset is_opened.
close_keeps_flag ==
    IF is_opened
    THEN /\ live' = live \ {hdwf}
         /\ UNCHANGED <<is_opened, hdwf>>
         /\ Report("close", SR_OK,
                   <<Call("FDwfDeviceClose", <<hdwf>>, hdwf \in live)>>,
                   <<>>, 0, 0)
    ELSE /\ UNCHANGED <<is_opened, hdwf, live>>
         /\ Report("close", SR_OK, <<>>, <<>>, 0, 0)

digilent_analogdiscovery2_close ==
    IF is_opened
    THEN /\ live' = live \ {hdwf}
         /\ is_opened' = FALSE
         /\ hdwf' = hdwf
         /\ Report("close", SR_OK,
                   <<Call("FDwfDeviceClose", <<hdwf>>, hdwf \in live)>>,
                   <<>>, 0, 0)
    ELSE /\ UNCHANGED <<is_opened, hdwf, live>>
         /\ Report("close", SR_OK, <<>>, <<>>, 0, 0)

Open ==
    /\ ~aborted
    /\ \E nativeOk \in BOOLEAN, h \in Handles, clearOnFail \in BOOLEAN :
           digilent_analogdiscovery2_open(nativeOk, h, clearOnFail)
    /\ input' = NoInput
    /\ UNCHANGED <<cur_samplerate, sources, feed, aborted>>

Close ==
    /\ ~aborted
    /\ digilent_analogdiscovery2_close
    /\ input' = NoInput
    /\ UNCHANGED <<cur_samplerate, sources, feed, aborted>>

(* ------------------------------ config_set ---------------------------- *)
\* Index (0-based) of data in samplerates, or -1 when it is not listed.
std_u64_idx(data) ==
    IF \E i \in 1..NUM_SAMPLERATES : samplerates[i] = data
    THEN (CHOOSE i \in 1..NUM_SAMPLERATES : samplerates[i] = data) - 1
    ELSE -1

\* config_set storing the requested rate without looking at idx.
config_set_unchecked(key, data) ==
    CASE key = "SR_CONF_TRIGGER_MATCH" ->
            /\ cur_samplerate' = cur_samplerate
            /\ Report("config_set", SR_OK, <<>>, <<>>, 0, 0)
      [] key = "SR_CONF_SAMPLERATE" ->
            /\ cur_samplerate' = data
            /\ Report("config_set", SR_OK, <<>>, <<>>, 0, 0)
      [] OTHER ->
            /\ cur_samplerate' = cur_samplerate
            /\ Report("config_set", SR_ERR_NA, <<>>, <<>>, 0, 0)

config_set(key, data) ==
    CASE key = "SR_CONF_TRIGGER_MATCH" ->
            /\ cur_samplerate' = cur_samplerate
            /\ Report("config_set", SR_OK, <<>>, <<>>, 0, 0)
      [] key = "SR_CONF_SAMPLERATE" ->
            LET idx == std_u64_idx(data) IN
            IF idx < 0
            THEN /\ cur_samplerate' = cur_samplerate
                 /\ Report("config_set", SR_ERR_ARG, <<>>, <<>>, 0, 0)
            ELSE /\ cur_samplerate' = samplerates[idx + 1]
                 /\ Report("config_set", SR_OK, <<>>, <<>>, 0, 0)
      [] OTHER ->
            /\ cur_samplerate' = cur_samplerate
            /\ Report("config_set", SR_ERR_NA, <<>>, <<>>, 0, 0)

ConfigKeys == {"SR_CONF_SAMPLERATE", "SR_CONF_TRIGGER_MATCH", "SR_CONF_CONN"}
\* Rates a caller may ask for: listed ones, zero and an unlisted one.
RequestedRates == {0, 1, 7, 200}

ConfigSet ==
    /\ ~aborted
    /\ \E key \in ConfigKeys, data \in RequestedRates :
           /\ config_set(key, data)
           /\ input' = Input(NoTrigger, key, data)
    /\ UNCHANGED <<is_opened, hdwf, live, sources, feed, aborted>>

(* ---------------------------- decode_trigger -------------------------- *)
\* Bit c of the non-negative integer m.
Bit(m, c) == (m \div (2 ^ c)) % 2
\* m | (1 << c)
OrBit(m, c) == IF Bit(m, c) = 1 THEN m ELSE m + 2 ^ c

\* A channel name is a string of characters; digits are 0..9 and NONDIGIT
\* stands for any other character.
NONDIGIT == 10
RECURSIVE atoi_from(_, _)
atoi_from(name, acc) ==
    IF name = <<>> \/ Head(name) = NONDIGIT
    THEN acc
    ELSE atoi_from(Tail(name), acc * 10 + Head(name))
atoi(name) == atoi_from(name, 0)

ZeroMasks ==
    [low |-> 0, high |-> 0, rise |-> 0, fall |-> 0,
     warns |-> 0, errs |-> 0, abort |-> FALSE]

\* The switch with a break after SR_TRIGGER_EDGE's rise_mask update.
decode_match_no_fallthrough(m, match, chan_no) ==
    CASE match = "SR_TRIGGER_ZERO"    -> [m EXCEPT !.low = OrBit(@, chan_no)]
      [] match = "SR_TRIGGER_ONE"     -> [m EXCEPT !.high = OrBit(@, chan_no)]
      [] match = "SR_TRIGGER_RISING"  -> [m EXCEPT !.rise = OrBit(@, chan_no)]
      [] match = "SR_TRIGGER_EDGE"    -> [m EXCEPT !.rise = OrBit(@, chan_no)]
      [] match = "SR_TRIGGER_FALLING" -> [m EXCEPT !.fall = OrBit(@, chan_no)]
      [] OTHER                        -> [m EXCEPT !.errs = @ + 1]

\* The switch over match->match, one match applied to the masks.
decode_match(m, match, chan_no) ==
    CASE match = "SR_TRIGGER_ZERO"    -> [m EXCEPT !.low = OrBit(@, chan_no)]
      [] match = "SR_TRIGGER_ONE"     -> [m EXCEPT !.high = OrBit(@, chan_no)]
      [] match = "SR_TRIGGER_RISING"  -> [m EXCEPT !.rise = OrBit(@, chan_no)]
      [] match = "SR_TRIGGER_EDGE"    -> [m EXCEPT !.rise = OrBit(@, chan_no),
                                                   !.fall = OrBit(@, chan_no)]
      [] match = "SR_TRIGGER_FALLING" -> [m EXCEPT !.fall = OrBit(@, chan_no)]
      [] OTHER                        -> [m EXCEPT !.errs = @ + 1]

\* The inner while loop over mlist. A failed assert terminates the process
\* unless the unit was built with NDEBUG.
RECURSIVE decode_matches(_, _, _)
decode_matches(mlist, m, ndebug) ==
    IF mlist = <<>>
    THEN m
    ELSE LET chan_no == atoi(Head(mlist).name) IN
         IF ~(chan_no >= 0 /\ chan_no < NUM_LOGIC_CHAN) /\ ~ndebug
         THEN [m EXCEPT !.abort = TRUE]
         ELSE decode_matches(Tail(mlist),
                             decode_match(m, Head(mlist).match, chan_no),
                             ndebug)

\* The outer while loop over slist. `stage` is read once before the loop
\* and is not advanced with slist.
RECURSIVE decode_stages(_, _, _, _)
decode_stages(slist, stage, m, ndebug) ==
    IF slist = <<>>
    THEN m
    ELSE LET m1 == decode_matches(stage, m, ndebug)
             rest == Tail(slist)
         IN IF m1.abort
            THEN m1
            ELSE decode_stages(rest, stage,
                               IF rest # <<>>
                               THEN [m1 EXCEPT !.warns = @ + 1]
                               ELSE m1,
                               ndebug)

\* A trigger with an empty stage list makes slist->data a read through NULL:
\* the process is killed, or (ubok) the unused load is dropped by the build.
decode_trigger(trigger, ndebug, ubok) ==
    IF trigger.null
    THEN ZeroMasks
    ELSE IF trigger.stages = <<>>
    THEN [ZeroMasks EXCEPT !.abort = ~ubok]
    ELSE decode_stages(trigger.stages, trigger.stages[1], ZeroMasks, ndebug)

(* ------------------------------- start -------------------------------- *)
\* start running the acquisition before the trigger masks are programmed.
start_configures_first(trigger, fails, ndebug, ubok) ==
    LET d == decode_trigger(trigger, ndebug, ubok)
        c1 == <<Call("FDwfDigitalInAcquisitionModeSet",
                     <<hdwf, "acqmodeRecord">>, 1 \notin fails)>>
        divider == IF cur_samplerate = 0 THEN 0
                   ELSE SYSCLOCK \div cur_samplerate
        rest == <<Call("FDwfDigitalInDividerSet", <<hdwf, divider>>,
                       2 \notin fails),
                  Call("FDwfDigitalInSampleFormatSet",
                       <<hdwf, SAMPLE_FORMAT>>, 3 \notin fails),
                  Call("FDwfDigitalInTriggerPositionSet",
                       <<hdwf, TRIGGER_POSITION>>, 4 \notin fails),
                  Call("FDwfDigitalInTriggerSourceSet",
                       <<hdwf, "trigsrcDetectorDigitalIn">>, 5 \notin fails),
                  Call("FDwfDigitalInConfigure", <<hdwf, TRUE, TRUE>>,
                       6 \notin fails),
                  Call("FDwfDigitalInTriggerSet",
                       <<hdwf, d.low, d.high, d.rise, d.fall>>,
                       7 \notin fails)>>
    IN IF d.abort
       THEN [calls |-> <<>>, warns |-> d.warns, errs |-> d.errs,
             abort |-> TRUE]
       ELSE IF cur_samplerate = 0 /\ (~ndebug \/ ~ubok)
       THEN [calls |-> c1, warns |-> d.warns, errs |-> d.errs,
             abort |-> TRUE]
       ELSE [calls |-> c1 \o rest, warns |-> d.warns, errs |-> d.errs,
             abort |-> FALSE]

\* fails: the positions (1..7) of the native calls that report failure.
\* Division by a zero rate is undefined: a trap, or (ubok) a result of 0.
digilent_analogdiscovery2_start(trigger, fails, ndebug, ubok) ==
    LET d == decode_trigger(trigger, ndebug, ubok)
        c1 == <<Call("FDwfDigitalInAcquisitionModeSet",
                     <<hdwf, "acqmodeRecord">>, 1 \notin fails)>>
        divider == IF cur_samplerate = 0 THEN 0
                   ELSE SYSCLOCK \div cur_samplerate
        rest == <<Call("FDwfDigitalInDividerSet", <<hdwf, divider>>,
                       2 \notin fails),
                  Call("FDwfDigitalInSampleFormatSet",
                       <<hdwf, SAMPLE_FORMAT>>, 3 \notin fails),
                  Call("FDwfDigitalInTriggerPositionSet",
                       <<hdwf, TRIGGER_POSITION>>, 4 \notin fails),
                  Call("FDwfDigitalInTriggerSourceSet",
                       <<hdwf, "trigsrcDetectorDigitalIn">>, 5 \notin fails),
                  Call("FDwfDigitalInTriggerSet",
                       <<hdwf, d.low, d.high, d.rise, d.fall>>,
                       6 \notin fails),
                  Call("FDwfDigitalInConfigure", <<hdwf, TRUE, TRUE>>,
                       7 \notin fails)>>
    IN IF d.abort
       THEN [calls |-> <<>>, warns |-> d.warns, errs |-> d.errs,
             abort |-> TRUE]
       ELSE IF cur_samplerate = 0 /\ (~ndebug \/ ~ubok)
       THEN [calls |-> c1, warns |-> d.warns, errs |-> d.errs,
             abort |-> TRUE]
       ELSE [calls |-> c1 \o rest, warns |-> d.warns, errs |-> d.errs,
             abort |-> FALSE]

\* Session services of libsigrok used by api.c.
sr_session_source_add(key) == sources \cup {key}
sr_session_source_remove(key) == sources \ {key}
sr_session_send(type) == Append(feed, type)

\* dev_acquisition_start without the is_opened test.
start_unchecked(trigger, fails, ndebug, ubok) ==
    LET s == digilent_analogdiscovery2_start(trigger, fails, ndebug, ubok)
    IN /\ sources' = sr_session_source_add(TIMER_FD)
       /\ feed' = sr_session_send(SR_DF_HEADER)
       /\ aborted' = s.abort
       /\ Report("start", IF s.abort THEN NO_RETURN ELSE SR_OK,
                 s.calls, <<>>, s.warns, s.errs)

dev_acquisition_start(trigger, fails, ndebug, ubok) ==
    IF is_opened = FALSE
    THEN /\ UNCHANGED <<sources, feed, aborted>>
         /\ Report("start", SR_ERR_DEV_CLOSED, <<>>, <<>>, 0, 0)
    ELSE LET s == digilent_analogdiscovery2_start(trigger, fails,
                                                  ndebug, ubok)
         IN /\ sources' = sr_session_source_add(TIMER_FD)
            /\ feed' = sr_session_send(SR_DF_HEADER)
            /\ aborted' = s.abort
            /\ Report("start", IF s.abort THEN NO_RETURN ELSE SR_OK,
                      s.calls, <<>>, s.warns, s.errs)

\* dev_acquisition_stop without the sr_session_source_remove call.
stop_keeps_source ==
    /\ sources' = sources
    /\ feed' = sr_session_send(SR_DF_END)
    /\ Report("stop", SR_OK, <<>>, <<>>, 0, 0)

dev_acquisition_stop ==
    /\ sources' = sr_session_source_remove(TIMER_FD)
    /\ feed' = sr_session_send(SR_DF_END)
    /\ Report("stop", SR_OK, <<>>, <<>>, 0, 0)

\* Trigger specifications handed to start by the session.
\* One free-running start, one empty stage list, one single-stage trigger,
\* one naming a channel outside the device, one unknown match kind and one
\* staged trigger.
Triggers ==
    {NoTrigger,
     [null |-> FALSE, stages |-> <<>>],
     [null |-> FALSE, stages |-> <<<<Match(<<3>>, "SR_TRIGGER_EDGE")>>>>],
     [null |-> FALSE, stages |-> <<<<Match(<<1, 6>>, "SR_TRIGGER_ONE")>>>>],
     [null |-> FALSE, stages |-> <<<<Match(<<5>>, "SR_TRIGGER_OVER")>>>>],
     [null |-> FALSE, stages |-> <<<<Match(<<0>>, "SR_TRIGGER_ZERO")>>,
                                   <<Match(<<5>>, "SR_TRIGGER_ONE")>>>>]}

\* The native calls of one start that report failure: none, any one, or all.
NUM_NATIVE_CALLS == 7
NativeCalls == 1..NUM_NATIVE_CALLS
FailSets == {{}} \cup {{i} : i \in NativeCalls} \cup {NativeCalls}

\* A closed session returns before the trigger, the device or the build's
\* treatment of asserts and undefined behaviour is consulted.
StartInputs ==
    IF is_opened
    THEN Triggers \X FailSets \X BOOLEAN \X BOOLEAN
    ELSE {<<NoTrigger, {}, FALSE, FALSE>>}

Start ==
    /\ ~aborted
    /\ Len(feed) < MaxFeed
    /\ \E in \in StartInputs :
           /\ dev_acquisition_start(in[1], in[2], in[3], in[4])
           /\ input' = Input(in[1], "", 0)
    /\ UNCHANGED <<is_opened, hdwf, cur_samplerate, live>>

Stop ==
    /\ ~aborted
    /\ Len(feed) < MaxFeed
    /\ dev_acquisition_stop
    /\ input' = NoInput
    /\ UNCHANGED <<is_opened, hdwf, cur_samplerate, live, aborted>>

(* ------------------------------ data pump ----------------------------- *)
DwfStates == {"DwfStateConfig", "DwfStateArmed", "DwfStatePrefill",
              "DwfStateTriggered", "DwfStateDone"}
\* Values the status query reports for available, lost and corrupt samples;
\* the available ones fit the 1 MiB payload buffer, as the device's buffer
\* depth makes them.
AvailCounts == {0, 1, 512}
LostCounts == {0, 2}
CorruptCounts == {0, 1}

\* receive_data testing cCorrupt alone.
receive_data_ignores_lost(cAvail, cLost, cCorrupt, sts) ==
    LET ok == hdwf \in live
        rec == Call("FDwfDigitalInStatusRecord",
                    <<hdwf, cAvail, cLost, cCorrupt>>, ok)
        status == Call("FDwfDigitalInStatus", <<hdwf, TRUE, sts>>, ok)
        data == Call("FDwfDigitalInStatusData", <<hdwf, cAvail * 2>>, ok)
    IN IF cCorrupt # 0
       THEN /\ feed' = feed
            /\ Report("receive_data", "TRUE", <<rec>>, <<>>, 0, 1)
       ELSE IF cAvail = 0 \/ sts \in {"DwfStateConfig", "DwfStateArmed",
                                      "DwfStatePrefill"}
       THEN /\ feed' = feed
            /\ Report("receive_data", "TRUE", <<rec, status>>, <<>>, 0, 0)
       ELSE /\ feed' = sr_session_send(SR_DF_LOGIC)
            /\ Report("receive_data", "TRUE", <<rec, status, data>>,
                      <<[type |-> SR_DF_LOGIC, length |-> cAvail * 2,
                         unitsize |-> UNITSIZE]>>, 0, 0)

\* receive_data not waiting in DwfStatePrefill.
receive_data_no_prefill(cAvail, cLost, cCorrupt, sts) ==
    LET ok == hdwf \in live
        rec == Call("FDwfDigitalInStatusRecord",
                    <<hdwf, cAvail, cLost, cCorrupt>>, ok)
        status == Call("FDwfDigitalInStatus", <<hdwf, TRUE, sts>>, ok)
        data == Call("FDwfDigitalInStatusData", <<hdwf, cAvail * 2>>, ok)
    IN IF cCorrupt # 0 \/ cLost # 0
       THEN /\ feed' = feed
            /\ Report("receive_data", "TRUE", <<rec>>, <<>>, 0, 1)
       ELSE IF cAvail = 0 \/ sts \in {"DwfStateConfig", "DwfStateArmed"}
       THEN /\ feed' = feed
            /\ Report("receive_data", "TRUE", <<rec, status>>, <<>>, 0, 0)
       ELSE /\ feed' = sr_session_send(SR_DF_LOGIC)
            /\ Report("receive_data", "TRUE", <<rec, status, data>>,
                      <<[type |-> SR_DF_LOGIC, length |-> cAvail * 2,
                         unitsize |-> UNITSIZE]>>, 0, 0)

\* receive_data with logic.length = cAvail.
receive_data_length_in_samples(cAvail, cLost, cCorrupt, sts) ==
    LET ok == hdwf \in live
        rec == Call("FDwfDigitalInStatusRecord",
                    <<hdwf, cAvail, cLost, cCorrupt>>, ok)
        status == Call("FDwfDigitalInStatus", <<hdwf, TRUE, sts>>, ok)
        data == Call("FDwfDigitalInStatusData", <<hdwf, cAvail * 2>>, ok)
    IN IF cCorrupt # 0 \/ cLost # 0
       THEN /\ feed' = feed
            /\ Report("receive_data", "TRUE", <<rec>>, <<>>, 0, 1)
       ELSE IF cAvail = 0 \/ sts \in {"DwfStateConfig", "DwfStateArmed",
                                      "DwfStatePrefill"}
       THEN /\ feed' = feed
            /\ Report("receive_data", "TRUE", <<rec, status>>, <<>>, 0, 0)
       ELSE /\ feed' = sr_session_send(SR_DF_LOGIC)
            /\ Report("receive_data", "TRUE", <<rec, status, data>>,
                      <<[type |-> SR_DF_LOGIC, length |-> cAvail,
                         unitsize |-> UNITSIZE]>>, 0, 0)

digilent_analogdiscovery2_receive_data(cAvail, cLost, cCorrupt, sts) ==
    LET ok == hdwf \in live
        rec == Call("FDwfDigitalInStatusRecord",
                    <<hdwf, cAvail, cLost, cCorrupt>>, ok)
        status == Call("FDwfDigitalInStatus", <<hdwf, TRUE, sts>>, ok)
        data == Call("FDwfDigitalInStatusData", <<hdwf, cAvail * 2>>, ok)
    IN IF cCorrupt # 0 \/ cLost # 0
       THEN /\ feed' = feed
            /\ Report("receive_data", "TRUE", <<rec>>, <<>>, 0, 1)
       ELSE IF cAvail = 0 \/ sts \in {"DwfStateConfig", "DwfStateArmed",
                                      "DwfStatePrefill"}
       THEN /\ feed' = feed
            /\ Report("receive_data", "TRUE", <<rec, status>>, <<>>, 0, 0)
       ELSE /\ feed' = sr_session_send(SR_DF_LOGIC)
            /\ Report("receive_data", "TRUE", <<rec, status, data>>,
                      <<[type |-> SR_DF_LOGIC, length |-> cAvail * 2,
                         unitsize |-> UNITSIZE]>>, 0, 0)

\* The session's main loop dispatches the registered timer source.
Poll ==
    /\ ~aborted
    /\ sources # {}
    /\ Len(feed) < MaxFeed
    /\ \E cAvail \in AvailCounts, cLost \in LostCounts,
          cCorrupt \in CorruptCounts, sts \in DwfStates :
           digilent_analogdiscovery2_receive_data(cAvail, cLost, cCorrupt, sts)
    /\ input' = NoInput
    /\ UNCHANGED <<is_opened, hdwf, cur_samplerate, live, sources, aborted>>

Next ==
    \/ Open
    \/ Close
    \/ ConfigSet
    \/ Start
    \/ Stop
    \/ Poll

Spec == Init /\ [][Next]_vars

(* ------------------------- the trigger encoder ----------------------- *)
\* The name scan gives channel j: its index printed with "%d".
RECURSIVE channel_name(_)
channel_name(j) ==
    IF j < 10 THEN <<j>> ELSE Append(channel_name(j \div 10), j % 10)

\* A match on the channel of index c, named as scan names it.
ChMatch(c, match) ==
    [name |-> channel_name(c), match |-> match, index |-> c]

MatchKinds == {"SR_TRIGGER_ZERO", "SR_TRIGGER_ONE", "SR_TRIGGER_RISING",
               "SR_TRIGGER_FALLING", "SR_TRIGGER_EDGE"}
\* Channels of the device the matches are drawn from: first, last, one between.
EncChannels == {0, 3, NUM_LOGIC_CHAN - 1}
\* Every kind on those channels, one kind the driver does not handle, and
\* one channel that is not a channel of the device.
EncMatches ==
    {ChMatch(c, k) : c \in EncChannels, k \in MatchKinds}
        \cup {ChMatch(3, "SR_TRIGGER_OVER"),
              ChMatch(NUM_LOGIC_CHAN, "SR_TRIGGER_ONE")}

RECURSIVE MatchLists(_)
MatchLists(n) ==
    IF n = 0 THEN {<<>>}
    ELSE LET shorter == MatchLists(n - 1)
         IN shorter \cup {Append(l, m) : l \in {x \in shorter : Len(x) = n - 1},
                                           m \in EncMatches}

\* Stages the staged triggers are built from.
EncStages ==
    {<<>>,
     <<ChMatch(0, "SR_TRIGGER_ZERO")>>,
     <<ChMatch(3, "SR_TRIGGER_RISING")>>,
     <<ChMatch(NUM_LOGIC_CHAN - 1, "SR_TRIGGER_EDGE"),
       ChMatch(3, "SR_TRIGGER_ONE")>>,
     <<ChMatch(NUM_LOGIC_CHAN, "SR_TRIGGER_ONE")>>}

RECURSIVE StageLists(_)
StageLists(n) ==
    IF n = 0 THEN {<<>>}
    ELSE LET shorter == StageLists(n - 1)
         IN shorter \cup {Append(l, st) : l \in {x \in shorter : Len(x) = n - 1},
                                            st \in EncStages}

\* No trigger, an empty stage list, every single-stage trigger of at most
\* MaxMatches matches, and every staged trigger of at most MaxStages stages.
EncTriggers ==
    {NoTrigger}
        \cup {[null |-> FALSE, stages |-> <<l>>] : l \in MatchLists(MaxMatches)}
        \cup {[null |-> FALSE, stages |-> l] :
                 l \in {x \in StageLists(MaxStages) : Len(x) # 1}}

\* The first start of an open session, the session's trigger being any of
\* EncTriggers and every native call succeeding.
StartEncoded ==
    /\ ~aborted
    /\ is_opened
    /\ feed = <<>>
    /\ \E trigger \in EncTriggers, ndebug \in BOOLEAN, ubok \in BOOLEAN :
           /\ dev_acquisition_start(trigger, {}, ndebug, ubok)
           /\ input' = Input(trigger, "", 0)
    /\ UNCHANGED <<is_opened, hdwf, cur_samplerate, live>>

NextEncode ==
    \/ Open
    \/ StartEncoded

SpecEncode == Init /\ [][NextEncode]_vars

\* A session whose cached rate may also be zero, for what start does with it.
InitAnyRate ==
    /\ is_opened = FALSE
    /\ hdwf = hdwfNone
    /\ cur_samplerate \in {0, DEFAULT_SAMPLERATE}
    /\ live = {}
    /\ sources = {}
    /\ feed = <<>>
    /\ op = "scan"
    /\ ret = SR_OK
    /\ calls = <<>>
    /\ emitted = <<>>
    /\ warns = 0
    /\ errs = 0
    /\ input = NoInput
    /\ aborted = FALSE

SpecAnyRate == InitAnyRate /\ [][Next]_vars

(* ------------------------------- claims ------------------------------- *)
\* The begin-stream / end-stream notifications in the consumer's feed.
Lifecycle == SelectSeq(feed, LAMBDA t : t \in {SR_DF_HEADER, SR_DF_END})
Headers == SelectSeq(feed, LAMBDA t : t = SR_DF_HEADER)
Session == <<is_opened, hdwf, cur_samplerate, live>>

\* C1: the lifecycle notifications delivered to the consumer strictly
\* alternate begin-stream, end-stream, starting with begin-stream, whatever
\* the sequence of start and stop calls.
C1_Alternation ==
    \A i \in DOMAIN Lifecycle :
        Lifecycle[i] = (IF i % 2 = 1 THEN SR_DF_HEADER ELSE SR_DF_END)

\* C2: the stored handle is a live native handle exactly when the open flag
\* is true, and the handle is unset whenever the session is not open (at
\* enumeration, after Close, after a failed Open).
C2_HandleIffOpen ==
    /\ is_opened <=> hdwf \in live
    /\ ~is_opened => hdwf = hdwfNone

\* C3: the SDK holds exactly the session's handle while the session is open
\* and no handle once it is closed, and every FDwfDeviceClose is issued with
\* a handle that is open in the SDK at that moment (so no handle is closed
\* twice and none is leaked).
C3_ReleasedExactlyOnce ==
    /\ is_opened => live = {hdwf}
    /\ ~is_opened => live = {}
    /\ \A i \in DOMAIN calls :
           calls[i].fn = "FDwfDeviceClose" => calls[i].ok

C3_Witness ==
    /\ op = "close"
    /\ Len(calls) = 1
    /\ calls[1].fn = "FDwfDeviceClose"
    /\ calls[1].ok
    /\ live = {}

\* C4: when a native configuration call of start reports failure, start
\* issues no later native call and returns an error to its caller.
C4_ShortCircuit ==
    op = "start" =>
        \A i \in DOMAIN calls :
            ~calls[i].ok => (Len(calls) = i /\ ret \notin {SR_OK, NO_RETURN})

\* C5: start on an open session whose cached rate is 0 returns an error and
\* issues no native configuration call (stated for the starts in which the
\* trigger encoder ran to its end, so that the rate decides the outcome).
EncoderCompleted == ~(aborted /\ calls = <<>>)
C6_StartClosedNoEffect ==
    [][(op' = "start" /\ ~is_opened) =>
          /\ ret' = SR_ERR_DEV_CLOSED
          /\ calls' = <<>>
          /\ emitted' = <<>>
          /\ UNCHANGED <<Session, sources, feed, aborted>>]_vars

C6_Witness == op = "start" /\ ret = SR_ERR_DEV_CLOSED /\ ~is_opened

\* C7: stop on a closed session emits nothing and changes no session or
\* scheduler state; stop on an open session succeeds.
C7_StopClosedNoop ==
    [][op' = "stop" =>
          IF is_opened
          THEN ret' = SR_OK
          ELSE UNCHANGED <<Session, sources, feed>>]_vars

\* C8: stop leaves no poll registered; a poll becomes registered again only
\* by a start that reaches the device (one that returns SR_OK, or in which
\* the process dies); the pump runs only while a poll is registered and the
\* process lives; and only the pump delivers logic packets.
C8_StopDeregisters ==
    [][/\ op' = "stop" => sources' = {}
       /\ (sources = {} /\ sources' # {}) =>
              (op' = "start" /\ (ret' = SR_OK \/ aborted'))
       /\ op' = "receive_data" => (sources # {} /\ ~aborted)
       /\ (Len(feed') > Len(feed) /\ feed'[Len(feed')] = SR_DF_LOGIC) =>
              op' = "receive_data"]_vars

C8_Witness == op = "stop" /\ sources = {} /\ Len(Headers) >= 2

\* C9: open on a session that is already open returns an error, does not
\* call the native open and leaves the open flag and the handle as they were.
C9_OpenTwiceRejected ==
    [][(op' = "open" /\ is_opened) =>
          /\ ret' = SR_ERR_BUG
          /\ calls' = <<>>
          /\ UNCHANGED <<is_opened, hdwf, live>>]_vars

C9_Witness == op = "open" /\ ret = SR_ERR_BUG /\ is_opened /\ calls = <<>>

\* C10: close always returns SR_OK and leaves the session closed, and close
\* on a session that is already closed (the second of two closes) issues no
\* native call and changes nothing of the session, the SDK or the feed.
C10_CloseIdempotent ==
    [][op' = "close" =>
          /\ ret' = SR_OK
          /\ ~is_opened'
          /\ ~is_opened =>
                 (calls' = <<>> /\ UNCHANGED <<Session, sources, feed>>)]_vars

C10_Witness ==
    op = "close" /\ calls = <<>> /\ ~is_opened /\ hdwf # hdwfNone

\* The trigger the last start read, and the masks it gave FDwfDigitalInTriggerSet.
StartedOpen == op = "start" /\ is_opened
Trigger == input.trigger
Programmed ==
    {<<calls[i].args[2], calls[i].args[3], calls[i].args[4], calls[i].args[5]>> :
        i \in {j \in DOMAIN calls : calls[j].fn = "FDwfDigitalInTriggerSet"}}
Channels == 0..(NUM_LOGIC_CHAN - 1)
InRange(stage) == \A i \in DOMAIN stage : stage[i].index \in Channels
\* The integer whose set bits are the members of S that are at most n.
RECURSIVE MaskOf(_, _)
MaskOf(S, n) ==
    IF n < 0 THEN 0 ELSE (IF n \in S THEN 2 ^ n ELSE 0) + MaskOf(S, n - 1)
\* The reference mask of a stage for a set of match kinds.
RefMask(stage, kinds) ==
    MaskOf({c \in Channels : \E i \in DOMAIN stage :
                stage[i].index = c /\ stage[i].match \in kinds},
           NUM_LOGIC_CHAN - 1)
RefMasks(stage) ==
    <<RefMask(stage, {"SR_TRIGGER_ZERO"}),
      RefMask(stage, {"SR_TRIGGER_ONE"}),
      RefMask(stage, {"SR_TRIGGER_RISING", "SR_TRIGGER_EDGE"}),
      RefMask(stage, {"SR_TRIGGER_FALLING", "SR_TRIGGER_EDGE"})>>
\* a | b on masks of NUM_LOGIC_CHAN bits.
MaskOr(a, b) ==
    MaskOf({c \in Channels : Bit(a, c) = 1 \/ Bit(b, c) = 1}, NUM_LOGIC_CHAN - 1)
\* The encoder applied to one stage alone.
EncodedAlone(stage) ==
    LET d == decode_trigger([null |-> FALSE, stages |-> <<stage>>], TRUE, TRUE)
    IN <<d.low, d.high, d.rise, d.fall>>
RECURSIVE UnionOfStages(_)
UnionOfStages(stages) ==
    IF stages = <<>> THEN <<0, 0, 0, 0>>
    ELSE LET a == EncodedAlone(Head(stages))
             b == UnionOfStages(Tail(stages))
         IN <<MaskOr(a[1], b[1]), MaskOr(a[2], b[2]),
              MaskOr(a[3], b[3]), MaskOr(a[4], b[4])>>

\* C11: for a trigger of more than one stage (channels all on the device),
\* each of the four masks start programs is the bitwise OR of the masks
\* the encoder gives for every stage taken alone.
C11_UnionOfStages ==
    (/\ StartedOpen
     /\ ret = SR_OK
     /\ ~Trigger.null
     /\ Len(Trigger.stages) > 1
     /\ \A i \in DOMAIN Trigger.stages : InRange(Trigger.stages[i]))
        => Programmed = {UnionOfStages(Trigger.stages)}

\* C12: a start that runs to its end reports the staged-trigger warning
\* once when its trigger has two or more stages, whatever their number, and
\* not at all when it has at most one stage or there is no trigger.
C12_WarnsOnce ==
    (StartedOpen /\ ret = SR_OK) =>
        warns = (IF ~Trigger.null /\ Len(Trigger.stages) >= 2 THEN 1 ELSE 0)

\* C13: for a single-stage trigger over channels 0..15, bit c of the
\* low / high / rise / fall mask start programs is set exactly when the
\* stage holds (c, ZERO) / (c, ONE) / (c, RISING or EDGE) /
\* (c, FALLING or EDGE); without a trigger the four masks are zero.
C13_SingleStageReference ==
    /\ (StartedOpen /\ Trigger.null) =>
           (ret = SR_OK /\ Programmed = {<<0, 0, 0, 0>>})
    /\ (/\ StartedOpen
        /\ ~Trigger.null
        /\ Len(Trigger.stages) = 1
        /\ InRange(Trigger.stages[1]))
           => (ret = SR_OK /\ Programmed = {RefMasks(Trigger.stages[1])})

C13_Witness ==
    /\ StartedOpen
    /\ ~Trigger.null
    /\ Trigger.stages =
           <<<<ChMatch(NUM_LOGIC_CHAN - 1, "SR_TRIGGER_EDGE"),
               ChMatch(3, "SR_TRIGGER_ZERO")>>>>
    /\ Programmed = {<<8, 0, 32768, 32768>>}

\* C14: when a match of the trigger names a channel outside [0,16), start
\* returns an error to its caller and programs no trigger masks.
HasOutOfRange(trigger) ==
    \E i \in DOMAIN trigger.stages : ~InRange(trigger.stages[i])
C14_OutOfRangeRejected ==
    (StartedOpen /\ HasOutOfRange(Trigger)) =>
        (ret \notin {SR_OK, NO_RETURN} /\ Programmed = {})

\* What the last run of the pump was told by the device.
PumpRan == op = "receive_data"
Avail == calls[1].args[2]
Lost == calls[1].args[3]
Corrupt == calls[1].args[4]
State == calls[2].args[3]
Waiting == {"DwfStateConfig", "DwfStateArmed", "DwfStatePrefill"}
BulkReads == {i \in DOMAIN calls : calls[i].fn = "FDwfDigitalInStatusData"}

\* C15: when the status reports lost or corrupt samples, the pump reports
\* the fault, sends no packet and reads no data, whatever the available
\* count is, and returns TRUE (continue polling).
C15_StreamFaultSkips ==
    (PumpRan /\ (Lost > 0 \/ Corrupt > 0)) =>
        /\ errs = 1
        /\ emitted = <<>>
        /\ BulkReads = {}
        /\ ret = "TRUE"
        /\ ~aborted

C15_Witness ==
    PumpRan /\ Lost = 2 /\ Corrupt = 0 /\ Avail = 512 /\ errs = 1

\* C16: with nothing lost or corrupt, and either no sample available or the
\* acquisition in Config, Armed or Prefill, the pump sends no packet, reads
\* no data and returns TRUE.
C16_WaitingSkips ==
    (PumpRan /\ Lost = 0 /\ Corrupt = 0 /\ (Avail = 0 \/ State \in Waiting)) =>
        /\ emitted = <<>>
        /\ BulkReads = {}
        /\ errs = 0
        /\ ret = "TRUE"

C16_Witness ==
    /\ PumpRan /\ Lost = 0 /\ Corrupt = 0
    /\ Avail = 512 /\ State = "DwfStatePrefill"
    /\ emitted = <<>>

\* C17: with nothing lost or corrupt, n > 0 samples available and the
\* acquisition outside Config, Armed and Prefill, the pump reads 2*n bytes
\* and sends exactly one logic packet of length 2*n and unit size 2, and
\* returns TRUE.
C17_OnePacket ==
    (PumpRan /\ Lost = 0 /\ Corrupt = 0 /\ Avail > 0 /\ State \notin Waiting) =>
        /\ emitted = <<[type |-> SR_DF_LOGIC, length |-> 2 * Avail,
                        unitsize |-> 2]>>
        /\ feed # <<>>
        /\ feed[Len(feed)] = SR_DF_LOGIC
        /\ \E i \in BulkReads : calls[i].args[2] = 2 * Avail
        /\ ret = "TRUE"

C17_Witness ==
    /\ PumpRan /\ Len(calls) = 3 /\ Avail = 512 /\ State = "DwfStateDone"
    /\ emitted = <<[type |-> SR_DF_LOGIC, length |-> 1024, unitsize |-> 2]>>

\* C18: config_set of the sample rate returns SR_OK and caches the value
\* exactly when it is one of samplerates; for any other value, 0 included,
\* it returns SR_ERR_ARG and leaves the cached rate alone; either way it
\* issues no native call and leaves the rest of the session alone, open or
\* closed.
Listed == {samplerates[i] : i \in DOMAIN samplerates}
C18_SetSamplerate ==
    [][(op' = "config_set" /\ input'.key = "SR_CONF_SAMPLERATE") =>
          /\ IF input'.data \in Listed
             THEN ret' = SR_OK /\ cur_samplerate' = input'.data
             ELSE ret' = SR_ERR_ARG /\ cur_samplerate' = cur_samplerate
          /\ calls' = <<>>
          /\ UNCHANGED <<is_opened, hdwf, live, sources, feed>>]_vars

C18_Witness ==
    /\ op = "config_set" /\ input.key = "SR_CONF_SAMPLERATE"
    /\ input.data = 0 /\ ret = SR_ERR_ARG /\ is_opened

\* C19: a start of an open session in which every native call succeeds
\* issues exactly these calls in this order: acquisition mode record,
\* divider 100000000 / cur_samplerate, sample format 16, trigger position,
\* trigger source digital-in detector, the four masks the encoder computes
\* from this start's trigger, and last configure-and-run.
EncoderMasks == decode_trigger(Trigger, TRUE, TRUE)
C19_CallOrder ==
    (/\ StartedOpen
     /\ ret = SR_OK
     /\ cur_samplerate # 0
     /\ \A i \in DOMAIN calls : calls[i].ok)
        => calls =
             <<Call("FDwfDigitalInAcquisitionModeSet",
                    <<hdwf, "acqmodeRecord">>, TRUE),
               Call("FDwfDigitalInDividerSet",
                    <<hdwf, 100000000 \div cur_samplerate>>, TRUE),
               Call("FDwfDigitalInSampleFormatSet", <<hdwf, 16>>, TRUE),
               Call("FDwfDigitalInTriggerPositionSet", <<hdwf, 100000>>, TRUE),
               Call("FDwfDigitalInTriggerSourceSet",
                    <<hdwf, "trigsrcDetectorDigitalIn">>, TRUE),
               Call("FDwfDigitalInTriggerSet",
                    <<hdwf, EncoderMasks.low, EncoderMasks.high,
                      EncoderMasks.rise, EncoderMasks.fall>>, TRUE),
               Call("FDwfDigitalInConfigure", <<hdwf, TRUE, TRUE>>, TRUE)>>

C19_Witness ==
    /\ StartedOpen /\ ret = SR_OK /\ Len(calls) = 7
    /\ \A i \in DOMAIN calls : calls[i].ok
    /\ cur_samplerate = 200
    /\ Programmed = {<<0, 0, 8, 8>>}

\* C20: the cached sample rate is always one of samplerates, hence never
\* zero; no divider is programmed from a zero rate, and start is never
\* terminated by its rate assertion (a start that is terminated at all is
\* terminated in the encoder, before its first native call).
C20_RateAlwaysListed ==
    /\ cur_samplerate \in Listed
    /\ cur_samplerate # 0
    /\ \A i \in DOMAIN calls :
           calls[i].fn = "FDwfDigitalInDividerSet" =>
               calls[i].args[2] = SYSCLOCK \div cur_samplerate
    /\ (op = "start" /\ aborted) => calls = <<>>

C20_Witness ==
    /\ op = "start" /\ ret = SR_OK /\ cur_samplerate = 1
    /\ \E i \in DOMAIN calls :
           /\ calls[i].fn = "FDwfDigitalInDividerSet"
           /\ calls[i].args[2] = 100000000

\* C21: every native call of the pump (status record, status, bulk read)
\* is issued while is_opened is true and on the handle the latest successful
\* open stored, which the SDK still holds open; after close, with or
\* without a stop before it, no pump invocation hands the released handle
\* to the SDK.
C21_PumpOnOpenHandle ==
    PumpRan =>
        /\ is_opened
        /\ \A i \in DOMAIN calls :
               /\ calls[i].args[1] = hdwf
               /\ calls[i].args[1] \in live
               /\ calls[i].ok
====
